---- MODULE Spec2Model ----
(***************************************************************************)
(* YCSB dynamic-load latency analyzer (src/analyze_latency.py).            *)
(*                                                                         *)
(* The module models                                                       *)
(*   - the text scraping of extract_timeseries_data / extract_phase_info   *)
(*     (regular-expression matching over characters, int() and float()     *)
(*     conversion, sorted()),                                              *)
(*   - the cross-run aggregation of plot_average_latency (np.mean, np.std  *)
(*     in binary floating point, round-to-nearest-even),                   *)
(*   - the sequential pipeline of main / run_all_tests as a state machine  *)
(*     over the program position pc.                                       *)
(***************************************************************************)
EXTENDS Integers, Sequences, FiniteSets, TLC

VARIABLES
    pc,              \* position of the program (main and what it calls)
    script_exists,   \* os.path.exists(args.script) when main starts
    num_runs,        \* args.runs
    no_plot,         \* args.no_plot
    i,               \* loop variable of run_all_tests
    results,         \* self.results
    outcomes,        \* history: what each attempted run's subprocess did
    trace,           \* history: observable events, in order
    json_file,       \* latency_data.json on disk
    images,          \* image files on disk, in the order written
    mode_changed,    \* os.chmod(args.script, 0o755) was applied
    exit_code,       \* process exit status, -1 while running
    interrupted,     \* history: a KeyboardInterrupt was delivered
    aggregate,       \* what plot_average_latency computed (lines 196-213)
    recs,            \* the lines the scraped text was rendered from
    output,          \* the text handed to the extract_* functions
    timeseries_data, \* result of extract_timeseries_data(output)
    phases           \* result of extract_phase_info(output)

vars == <<pc, script_exists, num_runs, no_plot, i, results, outcomes, trace,
          json_file, images, mode_changed, exit_code, interrupted, aggregate,
          recs, output, timeseries_data, phases>>

-----------------------------------------------------------------------------
(* Bounds of the model *)

\* largest --runs value explored
MaxRuns == 3
\* largest number of lines in a scraped text
MaxLines == 3
\* width of the floating-point significand in bits (53 in CPython's float;
\* the rounding rules below are those of IEEE 754 for any width)
MantBits == 5

-----------------------------------------------------------------------------
(* Program constants *)

\* time.sleep(10)
SleepSeconds == 10

-----------------------------------------------------------------------------
(* Binary floating point: a value is m * 2^e with m = 0 or                  *)
(* 2^(MantBits-1) <= m < 2^MantBits.  Results are rounded to nearest, ties  *)
(* to even.  The exponent is unbounded: no value of the model overflows.    *)

Pow2(k) == 2 ^ k

FZero == [m |-> 0, e |-> 0]

RECURSIVE Normalize(_, _, _)
\* the float nearest to (n / d) * 2^e, for n > 0 and d > 0
Normalize(n, d, e) ==
    IF n >= d * Pow2(MantBits) THEN Normalize(n, 2 * d, e + 1)
    ELSE IF n < d * Pow2(MantBits - 1) THEN Normalize(2 * n, d, e - 1)
    ELSE LET q == n \div d
             r == n % d
             up == (2 * r > d) \/ (2 * r = d /\ q % 2 = 1)
             m == IF up THEN q + 1 ELSE q
         IN  IF m = Pow2(MantBits)
             THEN [m |-> Pow2(MantBits - 1), e |-> e + 1]
             ELSE [m |-> m, e |-> e]

FRound(n, d, e) == IF n = 0 THEN FZero ELSE Normalize(n, d, e)

MinOf(a, b) == IF a <= b THEN a ELSE b

\* m of x expressed in units of 2^e0, for e0 <= x.e
Scaled(x, e0) == x.m * Pow2(x.e - e0)

FLess(a, b) ==
    LET e0 == MinOf(a.e, b.e) IN Scaled(a, e0) < Scaled(b, e0)

FAdd(a, b) ==
    LET e0 == MinOf(a.e, b.e) IN FRound(Scaled(a, e0) + Scaled(b, e0), 1, e0)

\* |a - b|; the sign is dropped because the difference is only ever squared
FAbsSub(a, b) ==
    LET e0 == MinOf(a.e, b.e)
        x == Scaled(a, e0)
        y == Scaled(b, e0)
    IN  FRound(IF x >= y THEN x - y ELSE y - x, 1, e0)

FMul(a, b) == FRound(a.m * b.m, 1, a.e + b.e)

FDivInt(a, n) == FRound(a.m, n, a.e)

ISqrt(n) == CHOOSE s \in 0..n : s * s <= n /\ (s + 1) * (s + 1) > n

\* correctly rounded square root
FSqrt(a) ==
    IF a.m = 0 THEN FZero
    ELSE LET odd == a.e % 2 = 1
             m0 == IF odd THEN 2 * a.m ELSE a.m
             e0 == IF odd THEN a.e - 1 ELSE a.e
             \* m0 * 4^MantBits has a root of more than MantBits + 1 bits
             n == m0 * Pow2(2 * MantBits)
             s == ISqrt(n)
             \* s < sqrt(n) < s + 1 unless n is a square: round on 2s+1
             exact == s * s = n
         IN  IF exact THEN FRound(s, 1, (e0 \div 2) - MantBits)
             ELSE FRound(2 * s + 1, 2, (e0 \div 2) - MantBits)

-----------------------------------------------------------------------------
(* Characters and the two regular expressions.  A text is a sequence of     *)
(* one-character strings.                                                   *)

Digits == {"0", "1", "2", "3", "4", "5", "6", "7", "8", "9"}

Letters ==
    {"a", "b", "c", "d", "e", "f", "g", "h", "i", "j", "k", "l", "m",
     "n", "o", "p", "q", "r", "s", "t", "u", "v", "w", "x", "y", "z",
     "A", "B", "C", "D", "E", "F", "G", "H", "I", "J", "K", "L", "M",
     "N", "O", "P", "Q", "R", "S", "T", "U", "V", "W", "X", "Y", "Z"}

\* \s
Whitespace == {" ", "\t", "\n", "\r", "\f"}
\* \w
WordChars == Letters \cup Digits \cup {"_"}
\* [\d.]
NumberChars == Digits \cup {"."}

LitUpdate == <<"[", "U", "P", "D", "A", "T", "E", "]", ",">>
LitPhase == <<"P", "h", "a", "s", "e", ":">>
LitThroughput == <<"T", "h", "r", "o", "u", "g", "h", "p", "u", "t", ":">>
LitOpsSec == <<"o", "p", "s", "/", "s", "e", "c", ",">>
LitElapsed == <<"E", "l", "a", "p", "s", "e", "d", ":">>
LitMs == <<"m", "s">>

\* the literal lit occurs in s at position pos
StartsWith(s, pos, lit) ==
    /\ pos + Len(lit) - 1 <= Len(s)
    /\ \A k \in 1..Len(lit) : s[pos + k - 1] = lit[k]

\* the least element of a non-empty set of positions
First(S) == CHOOSE k \in S : \A j \in S : k <= j

\* greedy repetition: the first position at or after pos whose character is
\* not in class (Len(s) + 1 when there is none)
SpanEnd(s, pos, class) ==
    LET stops == {k \in pos..Len(s) : s[k] \notin class}
    IN  IF stops = {} THEN Len(s) + 1 ELSE First(stops)

NoMatch == [ok |-> FALSE, groups |-> <<>>, end |-> 0]

\* r'\[UPDATE\],\s*(\d+),\s*([\d.]+)' anchored at pos.  The classes that
\* follow one another are disjoint, so the greedy spans never backtrack.
MatchUpdateAt(s, pos) ==
    IF ~StartsWith(s, pos, LitUpdate) THEN NoMatch
    ELSE LET p1 == pos + Len(LitUpdate)
             p2 == SpanEnd(s, p1, Whitespace)
             p3 == SpanEnd(s, p2, Digits)
         IN  IF p3 = p2 \/ ~StartsWith(s, p3, <<",">>) THEN NoMatch
             ELSE LET p4 == SpanEnd(s, p3 + 1, Whitespace)
                      p5 == SpanEnd(s, p4, NumberChars)
                  IN  IF p5 = p4 THEN NoMatch
                      ELSE [ok |-> TRUE,
                            groups |-> <<SubSeq(s, p2, p3 - 1),
                                         SubSeq(s, p4, p5 - 1)>>,
                            end |-> p5]

\* r'Phase:\s*(\w+),\s*Throughput:\s*([\d.]+)\s*ops/sec,\s*Elapsed:\s*(\d+)ms'
MatchPhaseAt(s, pos) ==
    IF ~StartsWith(s, pos, LitPhase) THEN NoMatch
    ELSE LET p1 == SpanEnd(s, pos + Len(LitPhase), Whitespace)
             p2 == SpanEnd(s, p1, WordChars)
         IN  IF p2 = p1 \/ ~StartsWith(s, p2, <<",">>) THEN NoMatch
             ELSE LET p3 == SpanEnd(s, p2 + 1, Whitespace)
                  IN  IF ~StartsWith(s, p3, LitThroughput) THEN NoMatch
                      ELSE LET p4 == SpanEnd(s, p3 + Len(LitThroughput), Whitespace)
                               p5 == SpanEnd(s, p4, NumberChars)
                               p6 == SpanEnd(s, p5, Whitespace)
                           IN  IF p5 = p4 \/ ~StartsWith(s, p6, LitOpsSec) THEN NoMatch
                               ELSE LET p7 == SpanEnd(s, p6 + Len(LitOpsSec), Whitespace)
                                    IN  IF ~StartsWith(s, p7, LitElapsed) THEN NoMatch
                                        ELSE LET p8 == SpanEnd(s, p7 + Len(LitElapsed), Whitespace)
                                                 p9 == SpanEnd(s, p8, Digits)
                                             IN  IF p9 = p8 \/ ~StartsWith(s, p9, LitMs)
                                                 THEN NoMatch
                                                 ELSE [ok |-> TRUE,
                                                       groups |-> <<SubSeq(s, p1, p2 - 1),
                                                                    SubSeq(s, p4, p5 - 1),
                                                                    SubSeq(s, p8, p9 - 1)>>,
                                                       end |-> p9 + Len(LitMs)]

RECURSIVE FindAllUpdate(_, _)
\* re.findall(pattern, output): the scan takes the leftmost match at or
\* after pos and resumes where that match ends, so matches do not overlap
FindAllUpdate(s, pos) ==
    LET found == {k \in pos..Len(s) : MatchUpdateAt(s, k).ok}
    IN  IF found = {} THEN <<>>
        ELSE LET mt == MatchUpdateAt(s, First(found))
             IN  <<mt.groups>> \o FindAllUpdate(s, mt.end)

RECURSIVE FindAllPhase(_, _)
\* re.findall(phase_pattern, output)
FindAllPhase(s, pos) ==
    LET found == {k \in pos..Len(s) : MatchPhaseAt(s, k).ok}
    IN  IF found = {} THEN <<>>
        ELSE LET mt == MatchPhaseAt(s, First(found))
             IN  <<mt.groups>> \o FindAllPhase(s, mt.end)

-----------------------------------------------------------------------------
(* int() and float() on the matched groups *)

DigitValue(c) ==
    CASE c = "0" -> 0 [] c = "1" -> 1 [] c = "2" -> 2 [] c = "3" -> 3
      [] c = "4" -> 4 [] c = "5" -> 5 [] c = "6" -> 6 [] c = "7" -> 7
      [] c = "8" -> 8 [] c = "9" -> 9

RECURSIVE DigitsValue(_, _)
DigitsValue(str, acc) ==
    IF str = <<>> THEN acc
    ELSE DigitsValue(Tail(str), 10 * acc + DigitValue(Head(str)))

\* int(s) for s matched by \d+ : never raises
int(str) == DigitsValue(str, 0)

\* float(s) for s matched by [\d.]+ : ValueError (ok = FALSE) unless s has
\* at least one digit and at most one point; otherwise the nearest float
float(str) ==
    LET dots == {k \in 1..Len(str) : str[k] = "."}
        digs == SelectSeq(str, LAMBDA c : c \in Digits)
    IN  IF Cardinality(dots) > 1 \/ digs = <<>>
        THEN [ok |-> FALSE, val |-> FZero]
        ELSE LET frac == IF dots = {} THEN 0
                         ELSE Len(str) - (CHOOSE k \in dots : TRUE)
             IN  [ok |-> TRUE, val |-> FRound(int(digs), 10 ^ frac, 0)]

-----------------------------------------------------------------------------
(* sorted() on (timestamp, latency) tuples *)

TupleLess(a, b) == a[1] < b[1] \/ (a[1] = b[1] /\ FLess(a[2], b[2]))

RECURSIVE InsertSorted(_, _)
InsertSorted(seq, x) ==
    IF seq = <<>> THEN <<x>>
    ELSE IF TupleLess(x, Head(seq)) THEN <<x>> \o seq
    ELSE <<Head(seq)>> \o InsertSorted(Tail(seq), x)

RECURSIVE SortFrom(_, _)
SortFrom(seq, acc) ==
    IF seq = <<>> THEN acc ELSE SortFrom(Tail(seq), InsertSorted(acc, Head(seq)))

\* mutant: the list is returned in the order of appearance
sorted_unsorted(seq) == seq

sorted(seq) == SortFrom(seq, <<>>)

-----------------------------------------------------------------------------
(* extract_timeseries_data and extract_phase_info *)

RECURSIVE TimeseriesLoopAbort(_, _)
\* mutant: the first ValueError ends the loop
TimeseriesLoopAbort(matches, acc) ==
    IF matches = <<>> THEN acc
    ELSE LET latency == float(Head(matches)[2])
         IN  IF ~latency.ok THEN acc
             ELSE TimeseriesLoopAbort(Tail(matches),
                      Append(acc, <<int(Head(matches)[1]), latency.val>>))

RECURSIVE TimeseriesLoop(_, _)
\* for timestamp_str, latency_str in matches: try ... except ValueError: continue
TimeseriesLoop(matches, acc) ==
    IF matches = <<>> THEN acc
    ELSE LET latency == float(Head(matches)[2])
         IN  IF ~latency.ok THEN TimeseriesLoop(Tail(matches), acc)
             ELSE TimeseriesLoop(Tail(matches),
                      Append(acc, <<int(Head(matches)[1]), latency.val>>))

extract_timeseries_data(out) ==
    sorted(TimeseriesLoop(FindAllUpdate(out, 1), <<>>))

RECURSIVE PhaseLoop(_, _)
\* for phase_name, throughput_str, elapsed_str in matches: try ... continue
PhaseLoop(matches, acc) ==
    IF matches = <<>> THEN acc
    ELSE LET throughput == float(Head(matches)[2])
         IN  IF ~throughput.ok THEN PhaseLoop(Tail(matches), acc)
             ELSE PhaseLoop(Tail(matches),
                      Append(acc, [name |-> Head(matches)[1],
                                   throughput |-> throughput.val,
                                   elapsed |-> int(Head(matches)[3])]))

extract_phase_info(out) == PhaseLoop(FindAllPhase(out, 1), <<>>)

-----------------------------------------------------------------------------
(* The texts the functions are applied to.  A text is rendered from lines;  *)
(* every field of a line carries, next to its characters, what it stands    *)
(* for, so that the expected result is known independently of the parser.   *)

\* timestamp fields: "1", "2", "10", and the non-numeric "x"
T1 == [str |-> <<"1">>, wf |-> TRUE, val |-> 1]
T2 == [str |-> <<"2">>, wf |-> TRUE, val |-> 2]
T10 == [str |-> <<"1", "0">>, wf |-> TRUE, val |-> 10]
Tx == [str |-> <<"x">>, wf |-> FALSE, val |-> 0]

\* numeric fields: "7", "0.1", and the malformed "0.1.1" and "." that the
\* class [\d.]+ matches but float() rejects
N7 == [str |-> <<"7">>, wf |-> TRUE, n |-> 7, d |-> 1]
N01 == [str |-> <<"0", ".", "1">>, wf |-> TRUE, n |-> 1, d |-> 10]
NTwoPoints == [str |-> <<"0", ".", "1", ".", "1">>, wf |-> FALSE, n |-> 0, d |-> 1]
NPoint == [str |-> <<".">>, wf |-> FALSE, n |-> 0, d |-> 1]

UpdateLine(ts, num) == [kind |-> "update", ts |-> ts, num |-> num]
PhaseLine(el, num) == [kind |-> "phase", ts |-> el, num |-> num]
OtherLine(ts, num) == [kind |-> "other", ts |-> ts, num |-> num]

L17 == UpdateLine(T1, N7)
L27 == UpdateLine(T2, N7)
L1x == UpdateLine(T1, N01)
Lbad == UpdateLine(T1, NPoint)
Lph == PhaseLine(T1, N7)

\* the lines of the texts of SpecParse: well-formed update records, update
\* records with a malformed latency, an update line whose timestamp is no
\* number, phase lines with a well-formed and a malformed throughput, and
\* a line of another series
Lines ==
    {L17, L27, L1x, UpdateLine(T2, N01), UpdateLine(T10, N01),
     UpdateLine(T2, NTwoPoints), Lbad, UpdateLine(Tx, N7),
     Lph, PhaseLine(T1, NTwoPoints), OtherLine(T1, N7)}

\* "[UPDATE], 1, 7"
\* "Phase: A, Throughput: 7 ops/sec, Elapsed: 1ms"
\* "[READ], 1, 7"
RenderLine(l) ==
    CASE l.kind = "update" ->
           LitUpdate \o <<" ">> \o l.ts.str \o <<",", " ">> \o l.num.str
      [] l.kind = "phase" ->
           LitPhase \o <<" ", "A", ",", " ">> \o LitThroughput \o <<" ">>
           \o l.num.str \o <<" ">> \o LitOpsSec \o <<" ">> \o LitElapsed
           \o <<" ">> \o l.ts.str \o LitMs
      [] OTHER ->
           <<"[", "R", "E", "A", "D", "]", ",", " ">> \o l.ts.str
           \o <<",", " ">> \o l.num.str

RECURSIVE RenderText(_)
RenderText(ls) ==
    IF ls = <<>> THEN <<>>
    ELSE RenderLine(Head(ls)) \o <<"\n">> \o RenderText(Tail(ls))

RECURSIVE SeqsUpTo(_, _)
\* the sequences over S of length at most n
SeqsUpTo(S, n) ==
    IF n = 0 THEN {<<>>}
    ELSE LET shorter == SeqsUpTo(S, n - 1)
         IN  shorter \cup {Append(q, x) : q \in shorter, x \in S}

\* what the test script prints in the pipeline runs: nothing; one record;
\* the same record twice; two records out of order; two records in order;
\* a malformed record with a phase line; a phase line with one record
RunOutputs ==
    {<<>>, <<L17>>, <<L1x, L1x>>, <<L27, L1x>>, <<L17, L27>>, <<Lbad, Lph>>,
     <<Lph, L27>>}

-----------------------------------------------------------------------------
(* Specification SpecParse: the extract_* functions applied to a text, in   *)
(* the order of run_all_tests lines 107-108.                                *)

InitParse ==
    /\ recs \in SeqsUpTo(Lines, MaxLines)
    /\ output = RenderText(recs)
    /\ pc = "extract_timeseries"
    /\ timeseries_data = <<>>
    /\ phases = <<>>
    /\ script_exists = TRUE
    /\ num_runs = 0
    /\ no_plot = FALSE
    /\ i = 0
    /\ results = <<>>
    /\ outcomes = <<>>
    /\ trace = <<>>
    /\ json_file = [state |-> "absent", data |-> <<>>]
    /\ images = <<>>
    /\ mode_changed = FALSE
    /\ exit_code = -1
    /\ interrupted = FALSE
    /\ aggregate = <<>>

pipelineVars ==
    <<script_exists, num_runs, no_plot, i, results, outcomes, trace, json_file,
      images, mode_changed, exit_code, interrupted, aggregate>>

ExtractTimeseriesData ==
    /\ pc = "extract_timeseries"
    /\ timeseries_data' = extract_timeseries_data(output)
    /\ pc' = "extract_phases"
    /\ UNCHANGED <<recs, output, phases, pipelineVars>>

ExtractPhaseInfo ==
    /\ pc = "extract_phases"
    /\ phases' = extract_phase_info(output)
    /\ pc' = "extracted"
    /\ UNCHANGED <<recs, output, timeseries_data, pipelineVars>>

NextParse == ExtractTimeseriesData \/ ExtractPhaseInfo

SpecParse == InitParse /\ [][NextParse]_vars

-----------------------------------------------------------------------------
(* np.mean, np.std and the aggregation of plot_average_latency              *)

RECURSIVE FSum(_, _)
\* np.add.reduce: left to right, starting from 0.0
FSum(xs, acc) == IF xs = <<>> THEN acc ELSE FSum(Tail(xs), FAdd(acc, Head(xs)))

np_mean(xs) == FDivInt(FSum(xs, FZero), Len(xs))

\* sqrt(mean(abs(x - x.mean())**2))
np_std(xs) ==
    LET mu == np_mean(xs)
        sq == [k \in 1..Len(xs) |-> FMul(FAbsSub(xs[k], mu), FAbsSub(xs[k], mu))]
    IN  FSqrt(FDivInt(FSum(sq, FZero), Len(xs)))

RECURSIVE ConcatTimeseries(_)
\* the points in the order the nested loops of lines 199-200 visit them
ConcatTimeseries(res) ==
    IF res = <<>> THEN <<>>
    ELSE Head(res).timeseries \o ConcatTimeseries(Tail(res))

\* mutant: timestamp_latencies[timestamp] = [latency]
BucketAddOverwrite(dict, point) ==
    [t \in DOMAIN dict \cup {point[1]} |->
        IF t = point[1] THEN <<point[2]>> ELSE dict[t]]

\* if timestamp not in timestamp_latencies: timestamp_latencies[timestamp] = []
\* timestamp_latencies[timestamp].append(latency)
BucketAdd(dict, point) ==
    [t \in DOMAIN dict \cup {point[1]} |->
        IF t = point[1]
        THEN (IF t \in DOMAIN dict THEN Append(dict[t], point[2]) ELSE <<point[2]>>)
        ELSE dict[t]]

RECURSIVE Bucket(_, _)
Bucket(points, dict) ==
    IF points = <<>> THEN dict
    ELSE Bucket(Tail(points), BucketAdd(dict, Head(points)))

RECURSIVE SortedKeys(_)
\* sorted(timestamp_latencies.keys())
SortedKeys(S) ==
    IF S = {} THEN <<>>
    ELSE LET lo == CHOOSE x \in S : \A y \in S : x <= y
         IN  <<lo>> \o SortedKeys(S \ {lo})

EmptyDict == [t \in {} |-> <<>>]

\* lines 196-213: timestamps, avg_latencies, std_latencies
Aggregate(res) ==
    LET timestamp_latencies == Bucket(ConcatTimeseries(res), EmptyDict)
        timestamps == SortedKeys(DOMAIN timestamp_latencies)
    IN  [k \in 1..Len(timestamps) |->
            [timestamp |-> timestamps[k],
             avg |-> np_mean(timestamp_latencies[timestamps[k]]),
             std |-> np_std(timestamp_latencies[timestamps[k]])]]

-----------------------------------------------------------------------------
(* Specification Spec: main and run_all_tests                               *)

Ev(e, n, s) == [ev |-> e, n |-> n, s |-> s]

JsonName == "latency_data.json"
LatencyPng == "latency_analysis.png"
AveragePng == "average_latency.png"

OutcomeKinds == {"ok", "nonzero", "timeout", "error", "interrupt"}

Init ==
    /\ pc = "main"
    /\ script_exists \in BOOLEAN
    /\ num_runs \in 0..MaxRuns
    /\ no_plot \in BOOLEAN
    /\ i = 0
    /\ results = <<>>
    /\ outcomes = <<>>
    /\ trace = <<>>
    /\ json_file = [state |-> "absent", data |-> <<>>]
    /\ images = <<>>
    /\ mode_changed = FALSE
    /\ exit_code = -1
    /\ interrupted = FALSE
    /\ aggregate = <<>>
    /\ recs = <<>>
    /\ output = <<>>
    /\ timeseries_data = <<>>
    /\ phases = <<>>

\* mutant: the existence check is missing
MainStartNoCheck ==
    /\ pc = "main"
    /\ mode_changed' = TRUE
    /\ trace' = Append(trace, Ev("chmod", 0, ""))
    /\ pc' = "for"
    /\ exit_code' = exit_code
    /\ UNCHANGED <<script_exists, num_runs, no_plot, i, results, outcomes,
                   json_file, images, interrupted, aggregate, recs, output,
                   timeseries_data, phases>>

\* main, lines 302-311: existence check, chmod, constructor
MainStart ==
    /\ pc = "main"
    /\ IF ~script_exists
       THEN /\ trace' = Append(trace, Ev("print", 0, "Error: Test script not found"))
            /\ exit_code' = 1
            /\ pc' = "exited"
            /\ UNCHANGED mode_changed
       ELSE /\ mode_changed' = TRUE
            /\ trace' = Append(trace, Ev("chmod", 0, ""))
            /\ pc' = "for"
            /\ UNCHANGED exit_code
    /\ UNCHANGED <<script_exists, num_runs, no_plot, i, results, outcomes,
                   json_file, images, interrupted, aggregate, recs, output,
                   timeseries_data, phases>>

\* mutant: the artifacts are written last
StageAfterSaveLast(stage) ==
    CASE stage = "for" -> "summary"
      [] stage = "summary" -> IF no_plot THEN "save" ELSE "plot_latency"
      [] stage = "plot_latency" -> "plot_average"
      [] stage = "plot_average" -> "save"
      [] stage = "save" -> "return"

\* main, lines 313-326: the order of the calls in the try block
StageAfter(stage) ==
    CASE stage = "for" -> "save"
      [] stage = "save" -> "summary"
      [] stage = "summary" -> IF no_plot THEN "return" ELSE "plot_latency"
      [] stage = "plot_latency" -> "plot_average"
      [] stage = "plot_average" -> "return"

\* for i in range(self.num_runs): run_single_test(i) starts the script
ForHead ==
    /\ pc = "for"
    /\ IF i < num_runs
       THEN /\ pc' = "run"
            /\ trace' = Append(trace, Ev("start", i, ""))
       ELSE /\ pc' = StageAfter("for")
            /\ UNCHANGED trace
    /\ UNCHANGED <<script_exists, num_runs, no_plot, i, results, outcomes,
                   json_file, images, mode_changed, exit_code, interrupted,
                   aggregate, recs, output, timeseries_data, phases>>

\* mutant: no except clauses, every exception propagates
run_single_test_no_except(kind, stdout) ==
    [raised |-> kind \in {"timeout", "error", "interrupt"},
     none |-> kind = "nonzero",
     stdout |-> stdout]

\* mutant: a bare except that also takes KeyboardInterrupt
run_single_test_bare_except(kind, stdout) ==
    [raised |-> FALSE, none |-> kind # "ok", stdout |-> stdout]

\* run_single_test, lines 29-50: what the call gives back for each way the
\* subprocess can end.  KeyboardInterrupt is no Exception and propagates.
run_single_test(kind, stdout) ==
    [raised |-> kind = "interrupt",
     none |-> kind \in {"nonzero", "timeout", "error"},
     stdout |-> stdout]

\* mutant: the run is recorded whether or not it has data
AppendResultAlways(res, run_index, ts, ph) ==
    Append(res, [run_id |-> run_index + 1, timeseries |-> ts, phases |-> ph])

\* lines 110-119 (the wall-clock 'timestamp' field is left out)
AppendResult(res, run_index, ts, ph) ==
    IF ts # <<>>
    THEN Append(res, [run_id |-> run_index + 1, timeseries |-> ts, phases |-> ph])
    ELSE res

\* main, lines 328-333: both handlers print and sys.exit(1)
Abort(events) ==
    /\ trace' = trace \o events \o <<Ev("print", 0, "aborted")>>
    /\ exit_code' = 1
    /\ pc' = "exited"

\* the script ends (or is interrupted) and the rest of the loop body runs
RunTest ==
    /\ pc = "run"
    /\ \E kind \in OutcomeKinds :
       \E ls \in IF kind = "ok" THEN RunOutputs ELSE {<<>>} :
          LET r == run_single_test(kind, RenderText(ls))
              ts == extract_timeseries_data(r.stdout)
              ph == extract_phase_info(r.stdout)
              ended == Ev("end", i, kind)
          IN  /\ outcomes' = Append(outcomes, [kind |-> kind, lines |-> ls])
              /\ interrupted' = (kind = "interrupt")
              /\ IF r.raised
                 THEN /\ Abort(<<ended, Ev("raise", 0, kind)>>)
                      /\ UNCHANGED <<i, results, recs, output, timeseries_data, phases>>
                 ELSE IF r.none
                 THEN \* if output is None: continue
                      /\ trace' = trace \o <<ended, Ev("print", i, "failed")>>
                      /\ i' = i + 1
                      /\ pc' = "for"
                      /\ UNCHANGED <<exit_code, results, recs, output,
                                     timeseries_data, phases>>
                 ELSE /\ recs' = ls
                      /\ output' = r.stdout
                      /\ timeseries_data' = ts
                      /\ phases' = ph
                      /\ results' = AppendResult(results, i, ts, ph)
                      /\ trace' = trace \o
                            <<ended,
                              Ev("print", i,
                                 IF ts # <<>> THEN "completed" ELSE "no time series data")>>
                      /\ IF i < num_runs - 1
                         THEN pc' = "sleep" /\ i' = i
                         ELSE pc' = "for" /\ i' = i + 1
                      /\ UNCHANGED exit_code
    /\ UNCHANGED <<script_exists, num_runs, no_plot, json_file, images,
                   mode_changed, aggregate>>

\* time.sleep(10), line 124
Sleep ==
    /\ pc = "sleep"
    /\ trace' = Append(trace, Ev("sleep", SleepSeconds, ""))
    /\ i' = i + 1
    /\ pc' = "for"
    /\ UNCHANGED <<script_exists, num_runs, no_plot, results, outcomes,
                   json_file, images, mode_changed, exit_code, interrupted,
                   aggregate, recs, output, timeseries_data, phases>>

\* Ctrl-C while main sleeps or is about to save, summarize or plot
Interrupt ==
    /\ pc \in {"sleep", "save", "summary", "plot_latency", "plot_average"}
    /\ interrupted' = TRUE
    /\ Abort(<<Ev("raise", 0, "interrupt")>>)
    /\ UNCHANGED <<script_exists, num_runs, no_plot, i, results, outcomes,
                   json_file, images, mode_changed, aggregate, recs, output,
                   timeseries_data, phases>>

\* save_raw_data, lines 248-252; open() or json.dump may raise OSError
SaveRawData ==
    /\ pc = "save"
    /\ \E how \in {"ok", "open_error", "write_error"} :
          IF how = "ok"
          THEN /\ json_file' = [state |-> "complete", data |-> results]
               /\ trace' = Append(trace, Ev("write", 0, JsonName))
               /\ pc' = StageAfter("save")
               /\ UNCHANGED exit_code
          ELSE /\ json_file' = IF how = "open_error" THEN json_file
                               ELSE [state |-> "partial", data |-> <<>>]
               /\ Abort(<<Ev("raise", 0, how)>>)
    /\ UNCHANGED <<script_exists, num_runs, no_plot, i, results, outcomes,
                   images, mode_changed, interrupted, aggregate, recs, output,
                   timeseries_data, phases>>

\* print_summary, lines 254-288
PrintSummary ==
    /\ pc = "summary"
    /\ trace' = Append(trace,
                  IF results = <<>> THEN Ev("print", 0, "No data to summarize")
                  ELSE Ev("stats", Len(ConcatTimeseries(results)), ""))
    /\ pc' = StageAfter("summary")
    /\ UNCHANGED <<script_exists, num_runs, no_plot, i, results, outcomes,
                   json_file, images, mode_changed, exit_code, interrupted,
                   aggregate, recs, output, timeseries_data, phases>>

\* mutant: the "if not self.results" guard is missing
PlotLatencyOverTimeNoGuard ==
    /\ pc = "plot_latency"
    /\ images' = Append(images, LatencyPng)
    /\ trace' = Append(trace, Ev("write", 0, LatencyPng))
    /\ pc' = StageAfter("plot_latency")
    /\ UNCHANGED <<script_exists, num_runs, no_plot, i, results, outcomes,
                   json_file, mode_changed, exit_code, interrupted, aggregate,
                   recs, output, timeseries_data, phases>>

\* plot_latency_over_time, lines 126-188; savefig may raise
PlotLatencyOverTime ==
    /\ pc = "plot_latency"
    /\ IF results = <<>>
       THEN /\ trace' = Append(trace, Ev("print", 0, "No data to plot"))
            /\ pc' = StageAfter("plot_latency")
            /\ UNCHANGED <<images, exit_code>>
       ELSE \E how \in {"ok", "savefig_error"} :
               IF how = "ok"
               THEN /\ images' = Append(images, LatencyPng)
                    /\ trace' = Append(trace, Ev("write", 0, LatencyPng))
                    /\ pc' = StageAfter("plot_latency")
                    /\ UNCHANGED exit_code
               ELSE /\ Abort(<<Ev("raise", 0, how)>>)
                    /\ UNCHANGED images
    /\ UNCHANGED <<script_exists, num_runs, no_plot, i, results, outcomes,
                   json_file, mode_changed, interrupted, aggregate, recs,
                   output, timeseries_data, phases>>

\* plot_average_latency, lines 190-246; savefig may raise
PlotAverageLatency ==
    /\ pc = "plot_average"
    /\ IF results = <<>>
       THEN /\ trace' = Append(trace, Ev("print", 0, "No data to plot"))
            /\ pc' = StageAfter("plot_average")
            /\ UNCHANGED <<images, exit_code, aggregate>>
       ELSE /\ aggregate' = Aggregate(results)
            /\ \E how \in {"ok", "savefig_error"} :
                  IF how = "ok"
                  THEN /\ images' = Append(images, AveragePng)
                       /\ trace' = Append(trace, Ev("write", 0, AveragePng))
                       /\ pc' = StageAfter("plot_average")
                       /\ UNCHANGED exit_code
                  ELSE /\ Abort(<<Ev("raise", 0, how)>>)
                       /\ UNCHANGED images
    /\ UNCHANGED <<script_exists, num_runs, no_plot, i, results, outcomes,
                   json_file, mode_changed, interrupted, recs, output,
                   timeseries_data, phases>>

\* main returns: exit status 0
MainReturn ==
    /\ pc = "return"
    /\ exit_code' = 0
    /\ pc' = "exited"
    /\ UNCHANGED <<script_exists, num_runs, no_plot, i, results, outcomes,
                   trace, json_file, images, mode_changed, interrupted,
                   aggregate, recs, output, timeseries_data, phases>>

Next ==
    \/ MainStart
    \/ ForHead
    \/ RunTest
    \/ Sleep
    \/ Interrupt
    \/ SaveRawData
    \/ PrintSummary
    \/ PlotLatencyOverTime
    \/ PlotAverageLatency
    \/ MainReturn

Spec == Init /\ [][Next]_vars

-----------------------------------------------------------------------------
(* Vocabulary of the properties                                             *)

Starts == {k \in DOMAIN trace : trace[k].ev = "start"}
Ends == {k \in DOMAIN trace : trace[k].ev = "end"}
Sleeps == {k \in DOMAIN trace : trace[k].ev = "sleep"}
Raises == {k \in DOMAIN trace : trace[k].ev = "raise"}
Writes(file) == {k \in DOMAIN trace : trace[k].ev = "write" /\ trace[k].s = file}
Prints(msg) == {k \in DOMAIN trace : trace[k].ev = "print" /\ trace[k].s = msg}
Summaries ==
    {k \in DOMAIN trace : trace[k].ev = "stats"} \cup Prints("No data to summarize")

AfterLoop == pc \in {"save", "summary", "plot_latency", "plot_average", "return"}
FailureKinds == {"nonzero", "timeout", "error"}

IsWellFormedUpdate(l) == l.kind = "update" /\ l.ts.wf /\ l.num.wf
IsWellFormedPhase(l) == l.kind = "phase" /\ l.ts.wf /\ l.num.wf
\* a line the pattern matches whose numeric field float() rejects
IsMalformed(l) == l.kind \in {"update", "phase"} /\ l.ts.wf /\ ~l.num.wf

ExpectedPair(l) == <<l.ts.val, FRound(l.num.n, l.num.d, 0)>>
Occurrences(seq, x) == Cardinality({k \in DOMAIN seq : seq[k] = x})

-----------------------------------------------------------------------------
\* C1: every run index 0..num_runs-1 is attempted exactly once and in
\* increasing order; a run that fails (non-zero return code, timeout, other
\* exception) adds nothing to results and does not keep the later runs from
\* being attempted
C1_EveryRunAttemptedOnceInOrder ==
    /\ \A k \in Starts : trace[k].n = Cardinality({j \in Starts : j < k})
    /\ Len(outcomes) <= Cardinality(Starts)
    /\ (AfterLoop \/ (pc = "exited" /\ script_exists /\ ~interrupted))
          => /\ Len(outcomes) = num_runs
             /\ Cardinality(Starts) = num_runs
    /\ \A r \in DOMAIN results : outcomes[results[r].run_id].kind = "ok"

\* a failed first run, a successful second run, analysis finished
C1_Witness ==
    /\ pc = "exited"
    /\ exit_code = 0
    /\ Len(outcomes) = 2
    /\ outcomes[1].kind \in FailureKinds
    /\ outcomes[2].kind = "ok"
    /\ Len(results) = 1

\* C2: runs are sequential (a run starts only when every earlier run has
\* ended), the fixed delay lies between every two consecutive attempts, also
\* after a failed or timed-out run, and no delay follows the last run
C2_DelayBetweenAllAttempts ==
    /\ \A k \in Starts :
          Cardinality({j \in Ends : j < k}) = Cardinality({j \in Starts : j < k})
    /\ \A k \in Starts :
          trace[k].n > 0 =>
             \E d \in Sleeps :
                /\ d < k
                /\ \E e \in Ends : e < d /\ trace[e].n = trace[k].n - 1
    /\ \A d \in Sleeps : trace[d].n = SleepSeconds
    /\ AfterLoop => \A d \in Sleeps : \E k \in Starts : d < k

\* C3: a text with N well-formed update records yields exactly those N
\* (timestamp, latency) pairs, duplicates kept and none invented, sorted
\* ascending by timestamp whatever the order of the lines
C3_ExtractsAllPairsSorted ==
    pc # "extract_timeseries" =>
       LET wellFormed == SelectSeq(recs, IsWellFormedUpdate)
           expected == [k \in DOMAIN wellFormed |-> ExpectedPair(wellFormed[k])]
       IN  /\ Len(timeseries_data) = Len(wellFormed)
           /\ \A k \in DOMAIN expected :
                 Occurrences(timeseries_data, expected[k])
                    = Occurrences(expected, expected[k])
           /\ \A k \in 1..(Len(timeseries_data) - 1) :
                 timeseries_data[k][1] <= timeseries_data[k + 1][1]

\* two well-formed records whose lines are in descending timestamp order
C3_Witness ==
    /\ pc = "extracted"
    /\ Len(recs) >= 2
    /\ IsWellFormedUpdate(recs[1])
    /\ IsWellFormedUpdate(recs[2])
    /\ recs[1].ts.val > recs[2].ts.val
    /\ Len(timeseries_data) = 2
    /\ timeseries_data[1][1] < timeseries_data[2][1]

\* C4: a record whose numeric field does not convert is dropped, the
\* records before and after it are still extracted: both functions give
\* what they give on the text without the malformed records
C4_MalformedRecordsSkipped ==
    pc = "extracted" =>
       LET cleaned == RenderText(SelectSeq(recs, LAMBDA l : ~IsMalformed(l)))
       IN  /\ timeseries_data = extract_timeseries_data(cleaned)
           /\ phases = extract_phase_info(cleaned)
           /\ Len(timeseries_data) = Len(SelectSeq(recs, IsWellFormedUpdate))
           /\ Len(phases) = Len(SelectSeq(recs, IsWellFormedPhase))

\* a malformed update record between two well-formed ones
C4_Witness ==
    /\ pc = "extracted"
    /\ Len(recs) = 3
    /\ IsWellFormedUpdate(recs[1])
    /\ recs[2].kind = "update"
    /\ IsMalformed(recs[2])
    /\ IsWellFormedUpdate(recs[3])
    /\ Len(timeseries_data) = 2

HasData(ls) == \E k \in DOMAIN ls : IsWellFormedUpdate(ls[k])
GoodRuns == {k \in DOMAIN outcomes : outcomes[k].kind = "ok" /\ HasData(outcomes[k].lines)}

\* C5: results holds one entry for each run that succeeded with at least one
\* record and none for any other run; timeseries are non-empty, run_id is
\* the run index + 1 and increases strictly, len(results) <= num_runs, and
\* the runs after a no-data run are processed
C5_ResultsAreTheRunsWithData ==
    /\ {results[r].run_id : r \in DOMAIN results} = GoodRuns
    /\ Len(results) = Cardinality(GoodRuns)
    /\ \A r \in DOMAIN results : results[r].timeseries # <<>>
    /\ \A r \in 1..(Len(results) - 1) : results[r].run_id < results[r + 1].run_id
    /\ Len(results) <= num_runs
    /\ Cardinality(Prints("no time series data"))
          = Cardinality({k \in DOMAIN outcomes :
                           outcomes[k].kind = "ok" /\ ~HasData(outcomes[k].lines)})
    /\ (AfterLoop /\ ~interrupted) => Len(outcomes) = num_runs

\* a successful run that reported a phase but no record, then a run with data
C5_Witness ==
    /\ AfterLoop
    /\ Len(outcomes) = 2
    /\ outcomes[1].kind = "ok"
    /\ outcomes[1].lines = <<Lbad, Lph>>
    /\ Len(results) = 1
    /\ results[1].run_id = 2

\* C6: with the script missing main reports the error and exits non-zero at
\* once: no run, no chmod, no JSON file, no image
C6_MissingScriptIsFatal ==
    (~script_exists /\ pc # "main") =>
       /\ pc = "exited"
       /\ exit_code = 1
       /\ Prints("Error: Test script not found") # {}
       /\ Starts = {}
       /\ outcomes = <<>>
       /\ ~mode_changed
       /\ json_file.state = "absent"
       /\ images = <<>>

C6_Witness == ~script_exists /\ pc = "exited" /\ num_runs > 0

\* C7: when no run contributes data the pipeline ends with status 0 unless
\* it is interrupted or the save fails: the summary and both plot functions
\* print their message, compute no statistics and write no image, and the
\* JSON file holds the empty list
C7_NoDataIsNotAFailure ==
    results = <<>> =>
       /\ images = <<>>
       /\ aggregate = <<>>
       /\ \A k \in DOMAIN trace : trace[k].ev # "stats"
       /\ \A k \in Raises : trace[k].s \in {"interrupt", "open_error", "write_error"}
       /\ (pc = "exited" /\ script_exists /\ Raises = {}) =>
             /\ exit_code = 0
             /\ json_file = [state |-> "complete", data |-> <<>>]
             /\ Cardinality(Prints("No data to summarize")) = 1
             /\ Cardinality(Prints("No data to plot")) = IF no_plot THEN 0 ELSE 2

\* some run succeeded without data, plots requested, normal exit
C7_Witness ==
    /\ pc = "exited"
    /\ exit_code = 0
    /\ results = <<>>
    /\ ~no_plot
    /\ \E k \in DOMAIN outcomes : outcomes[k].kind = "ok"
    /\ \E k \in DOMAIN outcomes : outcomes[k].kind = "timeout"

-----------------------------------------------------------------------------
(* The contributions to one timestamp, read off results independently of    *)
(* the bucketing, and their exact sum in units of 2^e0.                     *)

Points ==
    UNION {{<<r, k>> : k \in DOMAIN results[r].timeseries} : r \in DOMAIN results}
PointsAt(t) == {p \in Points : results[p[1]].timeseries[p[2]][1] = t}
LatencyOf(p) == results[p[1]].timeseries[p[2]][2]

LowestExponent(P, x) ==
    LET E == {LatencyOf(p).e : p \in P} \cup {x.e}
    IN  CHOOSE e \in E : \A f \in E : e <= f

RECURSIVE ExactSum(_, _)
ExactSum(P, e0) ==
    IF P = {} THEN 0
    ELSE LET p == CHOOSE q \in P : TRUE
         IN  Scaled(LatencyOf(p), e0) + ExactSum(P \ {p}, e0)

AllIdentical(P) == \A p, q \in P : LatencyOf(p) = LatencyOf(q)

Distance(a, b) == IF a >= b THEN a - b ELSE b - a

\* the aggregated timestamps are the distinct timestamps present, ascending
TimestampsDistinctAscending ==
    /\ {aggregate[k].timestamp : k \in DOMAIN aggregate}
          = {results[p[1]].timeseries[p[2]][1] : p \in Points}
    /\ \A k \in 1..(Len(aggregate) - 1) :
          aggregate[k].timestamp < aggregate[k + 1].timestamp

\* the aggregated value of entry k is the arithmetic mean of the latencies
\* recorded at its timestamp, each counted once, as floating point gives it:
\* for n values and a significand of p bits the sum and the division round
\* with a relative error of at most n / (2^p - n)
IsRoundedMean(k) ==
    LET P == PointsAt(aggregate[k].timestamp)
        n == Cardinality(P)
        e0 == LowestExponent(P, aggregate[k].avg)
    IN  /\ n >= 1
        /\ Distance(n * Scaled(aggregate[k].avg, e0), ExactSum(P, e0))
              * (Pow2(MantBits) - n) <= n * ExactSum(P, e0)

\* C8 as stated: at every timestamp the aggregated value is the arithmetic
\* mean of all latencies recorded there in all runs, each counted once, the
\* standard deviation is zero whenever the contributing values are
\* identical, and the timestamps are the distinct ones, ascending
C8_MeanAndStdZeroWhenIdentical ==
    aggregate # <<>> =>
       /\ TimestampsDistinctAscending
       /\ \A k \in DOMAIN aggregate :
             /\ IsRoundedMean(k)
             /\ AllIdentical(PointsAt(aggregate[k].timestamp))
                   => aggregate[k].std = FZero

\* C8 amended: as stated, except that the standard deviation of identical
\* values is zero when the computed mean equals them, which is so for one
\* or two contributing values; three identical values can have a mean that
\* is off by a rounding error and then a non-zero standard deviation
C8_MeanAndStdZeroWhenMeanExact ==
    aggregate # <<>> =>
       /\ TimestampsDistinctAscending
       /\ \A k \in DOMAIN aggregate :
             LET P == PointsAt(aggregate[k].timestamp)
                 x == LatencyOf(CHOOSE p \in P : TRUE)
             IN  /\ IsRoundedMean(k)
                 /\ (AllIdentical(P) /\ Cardinality(P) <= 2) => aggregate[k].avg = x
                 /\ (AllIdentical(P) /\ aggregate[k].avg = x) =>
                       aggregate[k].std = FZero

\* two runs, a timestamp with two identical values and one with two
\* different values
C8_Witness ==
    /\ Len(results) = 2
    /\ \E k \in DOMAIN aggregate :
          LET P == PointsAt(aggregate[k].timestamp)
          IN  Cardinality(P) = 2 /\ AllIdentical(P) /\ aggregate[k].std = FZero
    /\ \E k \in DOMAIN aggregate :
          LET P == PointsAt(aggregate[k].timestamp)
          IN  Cardinality(P) = 2 /\ ~AllIdentical(P) /\ aggregate[k].std # FZero

SaveReached ==
    Writes(JsonName) # {}
    \/ \E k \in Raises : trace[k].s \in {"open_error", "write_error"}

\* C9: an exception or interruption that reaches main ends the program with
\* a non-zero status; an interruption during a test run is not taken for a
\* failed run but ends the analysis, and when it comes before the save step
\* no JSON file is written
C9_InterruptionAborts ==
    /\ (interrupted \/ Raises # {}) => (pc = "exited" /\ exit_code = 1)
    /\ interrupted => Raises # {}
    /\ \A k \in Raises : k = Len(trace) - 1
    /\ (interrupted /\ ~SaveReached) => json_file.state = "absent"

\* one run collected, the next one interrupted
C9_Witness ==
    /\ pc = "exited"
    /\ interrupted
    /\ Len(results) = 1
    /\ Len(outcomes) = 2
    /\ outcomes[2].kind = "interrupt"
    /\ json_file.state = "absent"

\* C10: after all runs the JSON file with all collected records is written
\* first, then the summary is printed, then latency_analysis.png and
\* average_latency.png; the JSON is written whatever the plot flag, no image
\* is written with --no-plot, and a failure in the summary or in plotting
\* never leaves the JSON unwritten
C10_ArtifactOrder ==
    /\ \A w \in Writes(JsonName) :
          /\ \A e \in Ends : e < w
          /\ Cardinality(Starts) = num_runs
          /\ \A k \in Summaries \cup Writes(LatencyPng) \cup Writes(AveragePng) : w < k
    /\ \A k \in Summaries :
          /\ Writes(JsonName) # {}
          /\ \A g \in Writes(LatencyPng) \cup Writes(AveragePng) : k < g
    /\ \A a \in Writes(AveragePng) : \E l \in Writes(LatencyPng) : l < a
    /\ (Summaries # {} \/ pc \in {"summary", "plot_latency", "plot_average", "return"}
        \/ \E k \in Raises : trace[k].s = "savefig_error")
          => json_file = [state |-> "complete", data |-> results]
    /\ (pc = "exited" /\ exit_code = 0) =>
          /\ json_file = [state |-> "complete", data |-> results]
          /\ Cardinality(Summaries) = 1
          /\ images = IF no_plot \/ results = <<>> THEN <<>>
                      ELSE <<LatencyPng, AveragePng>>
    /\ no_plot => images = <<>>
    /\ images \in {<<>>, <<LatencyPng>>, <<LatencyPng, AveragePng>>}

\* both images written after the JSON and the summary
C10_Witness ==
    /\ pc = "exited"
    /\ exit_code = 0
    /\ images = <<LatencyPng, AveragePng>>
    /\ json_file.state = "complete"
    /\ Len(json_file.data) = 2

=============================================================================
